---- MODULE Spec2Model ----
(***************************************************************************)
(* Model of the CUDA Transpose kernel's planning code,                     *)
(* onnxruntime/core/providers/cuda/tensor/transpose.cc:                    *)
(* TryTransposeWithCublas, TransposeWithCublas, Transpose::DoTranspose     *)
(* and Transpose::ComputeInternal.                                         *)
(*                                                                         *)
(* Vectors (shapes, permutations, stride tables, tensor data) are          *)
(* functions on 0..n-1, so that every index is the index the C++ uses.     *)
(* Tensor data holds labels: the input of the first call is 0,1,..,n-1,    *)
(* one distinct label per element, so the output of a reordering names,    *)
(* cell by cell, the input element that was moved there.  Junk is a value  *)
(* that is no element of the input.                                        *)
(***************************************************************************)
EXTENDS Integers, Sequences, FiniteSets, TLC

VARIABLES
  call,              \* 1: the transpose under test, 2: the transpose back
  first,             \* the adapter call 1 invoked, once call 2 is entered
  element_type,      \* input.GetElementType()
  input_dims,        \* input.Shape().GetDims()
  output_dims,       \* output.Shape().GetDims()
  permutations,      \* the caller's permutation
  input_data,        \* the input buffer
  output_data,       \* the output buffer, once an adapter has filled it
  A,                 \* the input buffer of call 1
  pc,                \* position in DoTranspose: start, collapse, done
  i,                 \* the collapse loop's index
  new_rank,
  new_permutations,
  new_input_dims,
  new_output_dims,
  mn,                \* (M, N) as returned by TryTransposeWithCublas
  fixed_ok,          \* the answer of canDoTranspose4D, once asked
  calls,             \* the adapters invoked by this call, in order
  status,            \* the Status DoTranspose returned
  ub                 \* an adapter read or wrote outside a buffer, left a
                     \* cell unwritten, or wrote a cell twice

vars == <<call, first, element_type, input_dims, output_dims, permutations,
          input_data, output_data, A, pc, i, new_rank, new_permutations,
          new_input_dims, new_output_dims, mn, fixed_ok, calls, status, ub>>

(***************************************************************************)
(* Bounds of the model.                                                    *)
(***************************************************************************)
MaxRank == 4
MaxDim == 2
DeepRank == 7

Junk == 0 - 1

ElementTypes == {"float", "double", "MLFloat16", "int32"}

CublasTypes == {"float", "double", "MLFloat16"}

(***************************************************************************)
(* Vectors.                                                                *)
(***************************************************************************)
Empty == [k \in {} |-> 0]

Rank(v) == Cardinality(DOMAIN v)

Iota(n) == [k \in 0..(n - 1) |-> k]

Range(v) == {v[k] : k \in DOMAIN v}

Perms(n) == {p \in [0..(n - 1) -> 0..(n - 1)] :
               \A a, b \in 0..(n - 1) : p[a] = p[b] => a = b}

IsBijection(p, n) ==
  /\ \A k \in 0..(n - 1) : p[k] \in 0..(n - 1)
  /\ \A a, b \in 0..(n - 1) : p[a] = p[b] => a = b

Inverse(p) == [k \in DOMAIN p |-> CHOOSE j \in DOMAIN p : p[j] = k]

Permute(d, p) == [k \in DOMAIN p |-> d[p[k]]]

RECURSIVE ProdRange(_, _, _)
ProdRange(d, lo, hi) == IF lo >= hi THEN 1 ELSE d[lo] * ProdRange(d, lo + 1, hi)

RECURSIVE SumTo(_, _)
SumTo(f, n) == IF n = 0 THEN 0 ELSE f[n - 1] + SumTo(f, n - 1)

\* TensorShape::Size(): the element count
Size(d) == ProdRange(d, 0, Rank(d))

\* TensorPitches: row-major strides, the last axis the fastest
TensorPitches(d) == [k \in DOMAIN d |-> ProdRange(d, k + 1, Rank(d))]

(***************************************************************************)
(* TryTransposeWithCublas, lines 21-44.  gsl::narrow<int> throws when a    *)
(* value does not fit an int; the dimensions modelled are far below that.  *)
(***************************************************************************)
\* the NCHW <-> NHWC rule without its test of the batch dimension
TryTransposeWithCublasAnyBatch(perm, input_shape) ==
  IF Rank(perm) = 4 /\ perm[0] = 0
  THEN IF \/ (perm[1] = 2 /\ perm[2] = 3 /\ perm[3] = 1)
          \/ (perm[1] = 3 /\ perm[2] = 1 /\ perm[3] = 2)
       THEN IF perm[1] = 2
            THEN <<input_shape[1], input_shape[2] * input_shape[3]>>
            ELSE <<input_shape[1] * input_shape[2], input_shape[3]>>
       ELSE <<0, 0>>
  ELSE IF Rank(perm) = 2 /\ perm[1] = 0 /\ perm[0] = 1
       THEN <<input_shape[0], input_shape[1]>>
       ELSE <<0, 0>>

TryTransposeWithCublas(perm, input_shape) ==
  IF Rank(perm) = 4 /\ input_shape[0] = 1 /\ perm[0] = 0
  THEN IF \/ (perm[1] = 2 /\ perm[2] = 3 /\ perm[3] = 1)
          \/ (perm[1] = 3 /\ perm[2] = 1 /\ perm[3] = 2)
       THEN IF perm[1] = 2
            THEN <<input_shape[1], input_shape[2] * input_shape[3]>>
            ELSE <<input_shape[1] * input_shape[2], input_shape[3]>>
       ELSE <<0, 0>>
  ELSE IF Rank(perm) = 2 /\ perm[1] = 0 /\ perm[0] = 1
       THEN <<input_shape[0], input_shape[1]>>
       ELSE <<0, 0>>

(***************************************************************************)
(* TransposeWithCublas, lines 46-65: geam with both operands transposed,   *)
(* m = M, n = N, lda = N, ldc = M.  The input is read as a row-major       *)
(* M x N matrix and the output written as the row-major N x M matrix.      *)
(***************************************************************************)
TransposeWithCublas(data, M, N) ==
  [o \in 0..(M * N - 1) |-> data[(o % M) * N + (o \div M)]]

(***************************************************************************)
(* The collapse loop's body, lines 105-128.                                *)
(***************************************************************************)
\* lines 106-113: renumber, then drop position i
FusePermutations(np, nr, pos, curr) ==
  LET dec == [j \in DOMAIN np |->
                IF j < nr /\ np[j] > curr THEN np[j] - 1 ELSE np[j]]
  IN  [j \in DOMAIN np |->
         IF j >= pos /\ j + 1 < nr THEN dec[j + 1] ELSE dec[j]]

\* lines 115-120 with the product of line 115 replaced by a copy
FuseInputDimsCopy(nd, nr, prev, curr) ==
  LET mul == [nd EXCEPT ![prev] = nd[curr]]
      one == [mul EXCEPT ![curr] = 1]
      shl == [j \in DOMAIN nd |->
                IF j >= curr /\ j + 1 < nr THEN one[j + 1] ELSE one[j]]
  IN  [shl EXCEPT ![nr - 1] = 1]

\* lines 115-120
FuseInputDims(nd, nr, prev, curr) ==
  LET mul == [nd EXCEPT ![prev] = nd[prev] * nd[curr]]
      one == [mul EXCEPT ![curr] = 1]
      shl == [j \in DOMAIN nd |->
                IF j >= curr /\ j + 1 < nr THEN one[j + 1] ELSE one[j]]
  IN  [shl EXCEPT ![nr - 1] = 1]

\* lines 122-127
FuseOutputDims(nd, nr, pos) ==
  LET mul == [nd EXCEPT ![pos - 1] = nd[pos - 1] * nd[pos]]
      one == [mul EXCEPT ![pos] = 1]
      shl == [j \in DOMAIN nd |->
                IF j >= pos /\ j + 1 < nr THEN one[j + 1] ELSE one[j]]
  IN  [shl EXCEPT ![nr - 1] = 1]

\* lines 102-103: curr and prev are read from the caller's permutation
Curr(pos) == permutations[pos]

Prev(pos) == permutations[pos - 1]

(***************************************************************************)
(* The adapters' contracts.                                                *)
(***************************************************************************)
\* The values a cell outside the modelled buffers, or a cell no thread
\* wrote, may hold: any element of A, or a value that is none of them.
\* One adapter call draws one such value g for all its cells of that kind;
\* ub records that it happened, and no second call is made on such a
\* buffer.
Garbage == Range(A) \cup {Junk}

\* canDoTranspose4D: opaque, it may answer either way
canDoTranspose4D(type, nr, nid, np) == BOOLEAN

\* TransposeImpl: the flat output index is decomposed by the output
\* strides, and the coordinates are weighted by the input strides
RECURSIVE InputIndex(_, _, _, _, _)
InputIndex(remaining, dim, nr, in_strides, out_strides) ==
  IF dim >= nr THEN 0
  ELSE in_strides[dim] * (remaining \div out_strides[dim])
       + InputIndex(remaining % out_strides[dim], dim + 1, nr,
                    in_strides, out_strides)

TransposeImplReads(nr, in_strides, out_strides, N) ==
  [o \in 0..(N - 1) |-> InputIndex(o, 0, nr, in_strides, out_strides)]

\* a read outside the input buffer yields g
TransposeImpl(reads, data, g) ==
  [o \in DOMAIN reads |->
     IF reads[o] \in DOMAIN data THEN data[reads[o]] ELSE g]

\* Transpose4DImpl: one thread per input coordinate; it reads the input at
\* the coordinate weighted by the input strides and writes the output at
\* the coordinate weighted by the output strides
Coord(t, k, nr, shape) == (t \div ProdRange(shape, k + 1, nr)) % shape[k]

Weighted(t, nr, shape, strides) ==
  SumTo([k \in 0..(nr - 1) |-> Coord(t, k, nr, shape) * strides[k]], nr)

\* the (output index, input index) pair of every thread
Transpose4DImplWrites(nr, shape, in_strides, out_strides) ==
  {<<Weighted(t, nr, shape, out_strides), Weighted(t, nr, shape, in_strides)>> :
     t \in 0..(ProdRange(shape, 0, nr) - 1)}

\* per output cell, the input indices written to it
Writers(writes, N) ==
  [o \in 0..(N - 1) |-> {w[2] : w \in {x \in writes : x[1] = o}}]

Min(S) == CHOOSE x \in S : \A y \in S : x <= y

Max(S) == CHOOSE x \in S : \A y \in S : x >= y

\* a cell no thread wrote holds g; of two writes to a cell either may be
\* the last
Transpose4DImpl(writers, data, g, hi) ==
  [o \in DOMAIN writers |->
     IF writers[o] = {} THEN g
     ELSE IF hi THEN data[Max(writers[o])] ELSE data[Min(writers[o])]]

Transpose4DImplUB(writes, writers) ==
  \/ \E o \in DOMAIN writers : Cardinality(writers[o]) # 1
  \/ \E w \in writes : w[1] \notin DOMAIN writers

(***************************************************************************)
(* ComputeInternal, lines 169-188: the output is allocated with the        *)
(* permuted shape and DoTranspose is entered.                              *)
(***************************************************************************)
Enter(c, t, d, p, data, a) ==
  /\ call = c
  /\ first = "none"
  /\ element_type = t
  /\ input_dims = d
  /\ output_dims = Permute(d, p)
  /\ permutations = p
  /\ input_data = data
  /\ output_data = Empty
  /\ A = a
  /\ pc = "start"
  /\ i = 0
  /\ new_rank = 0
  /\ new_permutations = Empty
  /\ new_input_dims = Empty
  /\ new_output_dims = Empty
  /\ mn = <<0, 0>>
  /\ fixed_ok = FALSE
  /\ calls = <<>>
  /\ status = "none"
  /\ ub = FALSE

Init ==
  \E r \in 0..MaxRank :
    \E d \in [0..(r - 1) -> 0..MaxDim], p \in Perms(r), t \in ElementTypes :
      Enter(1, t, d, p, Iota(Size(d)), Iota(Size(d)))

\* Init, and the permutations of the ranks above MaxRank on the shape of
\* ones
InitDeep ==
  \/ Init
  \/ \E r \in (MaxRank + 1)..DeepRank :
       \E p \in Perms(r) :
         Enter(1, "int32", [k \in 0..(r - 1) |-> 1], p, Iota(1), Iota(1))

(***************************************************************************)
(* DoTranspose, lines 67-167.                                              *)
(***************************************************************************)
\* line 70 testing the leading dimension alone
IsEmptyOutputLeading == Rank(output_dims) > 0 /\ output_dims[0] = 0

\* line 70
IsEmptyOutput == Size(output_dims) = 0

\* lines 74-80 without the double and MLFloat16 cases of lines 75-76
CublasFitsFloatOnly ==
  /\ element_type = "float"
  /\ LET r == TryTransposeWithCublas(permutations, input_dims)
     IN  r[1] # 0 /\ r[2] # 0

\* lines 74-80
CublasFits ==
  /\ element_type \in CublasTypes
  /\ LET r == TryTransposeWithCublas(permutations, input_dims)
     IN  r[1] # 0 /\ r[2] # 0

\* lines 70-71
ReturnEmpty ==
  /\ pc = "start"
  /\ IsEmptyOutput
  /\ status' = "OK"
  /\ pc' = "done"
  /\ UNCHANGED <<call, first, element_type, input_dims, output_dims, permutations,
                 input_data, output_data, A, i, new_rank, new_permutations,
                 new_input_dims, new_output_dims, mn, fixed_ok, calls, ub>>

\* lines 73-89, the branch that returns
DispatchCublas ==
  /\ pc = "start"
  /\ ~IsEmptyOutput
  /\ CublasFits
  /\ mn' = TryTransposeWithCublas(permutations, input_dims)
  /\ output_data' = TransposeWithCublas(input_data, mn'[1], mn'[2])
  /\ calls' = Append(calls, "cublas")
  /\ status' = "OK"
  /\ pc' = "done"
  /\ UNCHANGED <<call, first, element_type, input_dims, output_dims, permutations,
                 input_data, A, i, new_rank, new_permutations,
                 new_input_dims, new_output_dims, fixed_ok, ub>>

\* lines 73-100, the fall through to the collapse loop
BeginCollapse ==
  /\ pc = "start"
  /\ ~IsEmptyOutput
  /\ ~CublasFits
  /\ mn' = IF element_type \in CublasTypes
           THEN TryTransposeWithCublas(permutations, input_dims)
           ELSE mn
  /\ new_rank' = Rank(input_dims)
  /\ new_permutations' = permutations
  /\ new_input_dims' = input_dims
  /\ new_output_dims' = output_dims
  /\ i' = Rank(input_dims) - 1
  /\ pc' = "collapse"
  /\ UNCHANGED <<call, first, element_type, input_dims, output_dims, permutations,
                 input_data, output_data, A, fixed_ok, calls, status, ub>>

\* lines 101-130, one iteration
CollapseStep ==
  /\ pc = "collapse"
  /\ i > 0
  /\ IF Prev(i) + 1 = Curr(i)
     THEN /\ new_permutations' =
               FusePermutations(new_permutations, new_rank, i, Curr(i))
          /\ new_input_dims' =
               FuseInputDims(new_input_dims, new_rank, Prev(i), Curr(i))
          /\ new_output_dims' = FuseOutputDims(new_output_dims, new_rank, i)
          /\ new_rank' = new_rank - 1
     ELSE UNCHANGED <<new_permutations, new_input_dims, new_output_dims,
                      new_rank>>
  /\ i' = i - 1
  /\ UNCHANGED <<call, first, element_type, input_dims, output_dims, permutations,
                 input_data, output_data, A, pc, mn, fixed_ok, calls, status,
                 ub>>

LoopDone == pc = "collapse" /\ i <= 0

\* lines 132-133
new_input_strides == TensorPitches(new_input_dims)

new_output_strides == TensorPitches(new_output_dims)

\* lines 141-144
tmp_output_strides ==
  [k \in 0..(new_rank - 1) |-> new_output_strides[new_permutations[k]]]

\* lines 153-156
input_strides ==
  [k \in 0..(new_rank - 1) |-> new_input_strides[new_permutations[k]]]

\* lines 158-161
output_strides == [k \in 0..(new_rank - 1) |-> new_output_strides[k]]

\* lines 139-150
DispatchFixedRank ==
  /\ LoopDone
  /\ TRUE \in canDoTranspose4D(element_type, new_rank, new_input_dims,
                               new_permutations)
  /\ fixed_ok' = TRUE
  /\ LET writes == Transpose4DImplWrites(new_rank, new_input_dims,
                                         new_input_strides, tmp_output_strides)
         writers == Writers(writes, Size(output_dims))
     IN  /\ \E g \in Garbage, hi \in BOOLEAN :
              output_data' = Transpose4DImpl(writers, input_data, g, hi)
         /\ ub' = Transpose4DImplUB(writes, writers)
  /\ calls' = Append(calls, "fixed")
  /\ status' = "OK"
  /\ pc' = "done"
  /\ UNCHANGED <<call, first, element_type, input_dims, output_dims, permutations,
                 input_data, A, i, new_rank, new_permutations,
                 new_input_dims, new_output_dims, mn>>

\* lines 139-140 and 152-166
DispatchGeneral ==
  /\ LoopDone
  /\ FALSE \in canDoTranspose4D(element_type, new_rank, new_input_dims,
                                new_permutations)
  /\ fixed_ok' = FALSE
  /\ LET reads == TransposeImplReads(new_rank, input_strides, output_strides,
                                     Size(output_dims))
     IN  /\ \E g \in Garbage :
              output_data' = TransposeImpl(reads, input_data, g)
         /\ ub' = \E o \in DOMAIN reads : reads[o] \notin DOMAIN input_data
  /\ calls' = Append(calls, "general")
  /\ status' = "OK"
  /\ pc' = "done"
  /\ UNCHANGED <<call, first, element_type, input_dims, output_dims, permutations,
                 input_data, A, i, new_rank, new_permutations,
                 new_input_dims, new_output_dims, mn>>

\* ComputeInternal once more, lines 169-188: the result is transposed back
\* with the inverse permutation
SecondCall ==
  /\ pc = "done"
  /\ call = 1
  /\ ~ub
  /\ call' = 2
  /\ first' = IF calls = <<>> THEN "none" ELSE calls[1]
  /\ input_dims' = output_dims
  /\ permutations' = Inverse(permutations)
  /\ output_dims' = Permute(output_dims, Inverse(permutations))
  /\ input_data' = output_data
  /\ output_data' = Empty
  /\ pc' = "start"
  /\ i' = 0
  /\ new_rank' = 0
  /\ new_permutations' = Empty
  /\ new_input_dims' = Empty
  /\ new_output_dims' = Empty
  /\ mn' = <<0, 0>>
  /\ fixed_ok' = FALSE
  /\ calls' = <<>>
  /\ status' = "none"
  /\ UNCHANGED <<element_type, A, ub>>

Next ==
  \/ ReturnEmpty
  \/ DispatchCublas
  \/ BeginCollapse
  \/ CollapseStep
  \/ DispatchFixedRank
  \/ DispatchGeneral
  \/ SecondCall

Spec == Init /\ [][Next]_vars

SpecDeep == InitDeep /\ [][Next]_vars

(***************************************************************************)
(* The reference the claims compare with: the naive reordering on the      *)
(* uncollapsed shapes, out[index o] = in[index o permuted].                *)
(***************************************************************************)
NaiveTranspose(data, dims, perm) ==
  LET od == Permute(dims, perm)
      is == TensorPitches(dims)
      os == TensorPitches(od)
      r  == Rank(dims)
  IN  [o \in 0..(Size(dims) - 1) |->
         data[SumTo([k \in 0..(r - 1) |->
                       ((o \div os[k]) % od[k]) * is[perm[k]]], r)]]

\* the collapse loop has finished and the plan is the one dispatched
PlanReady ==
  \/ pc = "collapse" /\ i <= 0
  \/ pc = "done" /\ calls # <<>> /\ calls[1] # "cublas"

Total == Size(input_dims)

Fit == mn[1] # 0 /\ mn[2] # 0

\* some M x N with M * N = Total whose row-major transpose is the naive
\* reordering
IsMatrixTranspose ==
  \E M \in 1..Total :
    /\ Total % M = 0
    /\ NaiveTranspose(Iota(Total), input_dims, permutations)
         = TransposeWithCublas(Iota(Total), M, Total \div M)

(***************************************************************************)
(* C1: on the collapsing route, the general strided reordering run with    *)
(* the plan DoTranspose builds yields the naive reordering of the input on *)
(* the uncollapsed shapes, element for element.                            *)
(***************************************************************************)
C1_CollapsedPlanIsNaive ==
  (pc = "done" /\ calls = <<"general">>)
    => output_data = NaiveTranspose(input_data, input_dims, permutations)

(***************************************************************************)
(* C2: after the collapse loop, the first new_rank entries of              *)
(* new_input_dims multiply to the input's element count and those of       *)
(* new_output_dims to the output's element count.                          *)
(***************************************************************************)
C2_ElementCountKept ==
  PlanReady =>
    /\ ProdRange(new_input_dims, 0, new_rank) = Size(input_dims)
    /\ ProdRange(new_output_dims, 0, new_rank) = Size(output_dims)

(***************************************************************************)
(* C3: DoTranspose with P, then DoTranspose with the inverse of P on the   *)
(* result, reproduces the array A.  Stated of the round trips in which     *)
(* neither call is handed to the fixed-rank adapter, so that a violation   *)
(* rests on the plan alone and not on what the eligibility predicate       *)
(* admits.                                                                 *)
(***************************************************************************)
C3_RoundTrip ==
  (call = 2 /\ pc = "done" /\ first # "fixed" /\ calls # <<"fixed">>)
    => output_data = A

(***************************************************************************)
(* C4: when the output's element count is 0, DoTranspose returns success   *)
(* and invokes no adapter; it never enters the collapse loop.              *)
(***************************************************************************)
C4_ZeroSizeShortCircuit ==
  Size(output_dims) = 0 =>
    /\ calls = <<>>
    /\ pc \in {"start", "done"}
    /\ pc = "done" => status = "OK"

C4_Witness ==
  /\ Size(output_dims) = 0
  /\ Rank(output_dims) >= 2
  /\ output_dims[0] # 0
  /\ pc = "done"
  /\ status = "OK"

(***************************************************************************)
(* C5: a call with a non-empty output invokes exactly one adapter: cuBLAS  *)
(* when the element type is float, double or half and the detector         *)
(* returns a fit; otherwise the fixed-rank adapter when the eligibility    *)
(* predicate answered true; otherwise the general adapter.                 *)
(***************************************************************************)
C5_Expected ==
  IF /\ element_type \in {"float", "double", "MLFloat16"}
     /\ TryTransposeWithCublas(permutations, input_dims)[1] # 0
     /\ TryTransposeWithCublas(permutations, input_dims)[2] # 0
  THEN "cublas"
  ELSE IF fixed_ok THEN "fixed" ELSE "general"

C5_ExactlyOneAdapter ==
  /\ Len(calls) <= 1
  /\ (pc = "done" /\ Size(output_dims) # 0) => calls = <<C5_Expected>>

C5_Witness ==
  /\ pc = "done"
  /\ calls = <<"fixed">>
  /\ element_type = "double"
  /\ Size(output_dims) > 1

(***************************************************************************)
(* C6 as stated: for ranks 2 and up and non-zero dimensions,               *)
(* TryTransposeWithCublas returns a fit if and only if the reordering is a *)
(* dense M x N transpose with M * N the element count, and a returned      *)
(* (M, N) is such a pair.                                                  *)
(***************************************************************************)
C6_Asked ==
  /\ pc # "start"
  /\ element_type \in CublasTypes
  /\ Rank(input_dims) >= 2
  /\ Total # 0

C6_FitIffMatrixTranspose ==
  C6_Asked =>
    /\ Fit <=> IsMatrixTranspose
    /\ Fit => /\ mn[1] * mn[2] = Total
              /\ NaiveTranspose(input_data, input_dims, permutations)
                   = TransposeWithCublas(input_data, mn[1], mn[2])

(***************************************************************************)
(* C6 as amended: when TryTransposeWithCublas returns a fit (M, N), then   *)
(* M * N is the element count and the naive reordering is the row-major    *)
(* M x N matrix transpose.  Nothing is said of the inputs without a fit.   *)
(***************************************************************************)
C6_FitIsMatrixTranspose ==
  (C6_Asked /\ Fit) =>
    /\ mn[1] * mn[2] = Total
    /\ NaiveTranspose(input_data, input_dims, permutations)
         = TransposeWithCublas(input_data, mn[1], mn[2])
    /\ IsMatrixTranspose

C6_Witness ==
  /\ C6_Asked
  /\ Fit
  /\ Rank(input_dims) = 4
  /\ permutations[1] = 3
  /\ mn[1] > 1
  /\ mn[2] > 1
  /\ pc = "done"

(***************************************************************************)
(* C7: the first new_rank entries of new_permutations, with which the      *)
(* strides are permuted, are a bijection on [0, new_rank).                 *)
(***************************************************************************)
C7_CollapsedPermIsBijection ==
  PlanReady => IsBijection(new_permutations, new_rank)

(***************************************************************************)
(* C8: for the identity permutation on a shape of rank >= 1 with non-zero  *)
(* element count the loop fuses all axes: new_rank is 1, the one input     *)
(* axis and the one output axis hold the element count, the permutation is *)
(* [0], and the output equals the input.                                   *)
(***************************************************************************)
C8_IsIdentity ==
  /\ Rank(input_dims) >= 1
  /\ permutations = Iota(Rank(input_dims))
  /\ Total # 0

C8_IdentityFusesAll ==
  C8_IsIdentity =>
    /\ PlanReady => /\ new_rank = 1
                    /\ new_input_dims[0] = Total
                    /\ new_output_dims[0] = Total
                    /\ new_permutations[0] = 0
    /\ pc = "done" => /\ output_data = input_data
                      /\ ~ub
                      /\ calls # <<>>

C8_Witness ==
  /\ C8_IsIdentity
  /\ Rank(input_dims) = 3
  /\ Total > 2
  /\ call = 1
  /\ pc = "done"
  /\ new_rank = 1
  /\ output_data = A

(***************************************************************************)
(* C9: after the collapse loop no fusible pair is left: no k with          *)
(* 0 < k < new_rank and new_permutations[k-1] + 1 = new_permutations[k].   *)
(***************************************************************************)
C9_NoFusiblePairLeft ==
  PlanReady =>
    \A k \in 1..(new_rank - 1) :
      new_permutations[k - 1] + 1 # new_permutations[k]

(***************************************************************************)
(* C10: after the collapse loop, new_output_dims[k] is                     *)
(* new_input_dims[new_permutations[k]] for every k < new_rank, and every   *)
(* entry of either shape at an index >= new_rank is 1.                     *)
(***************************************************************************)
C10_PlanConsistent ==
  PlanReady =>
    /\ \A k \in 0..(new_rank - 1) :
         new_output_dims[k] = new_input_dims[new_permutations[k]]
    /\ \A k \in DOMAIN new_input_dims :
         k >= new_rank => new_input_dims[k] = 1 /\ new_output_dims[k] = 1

====
